---------------------------- MODULE Spec2Model ----------------------------
(***************************************************************************)
(* Batch transfer of song titles into a playlist.                          *)
(*                                                                         *)
(*   YouTubeMusicAutomationAgent   src/youtube_manager.py                  *)
(*       process_song_list -> process_batch -> _process_with_retry         *)
(*       process_with_quota                                                *)
(*   PlaylistTransfer              src/youtube_playlist.py                 *)
(*       process_playlist                                                  *)
(*                                                                         *)
(* One run of one entry point is modelled from its call to its return (or  *)
(* raise).  The catalog (search / insert / create) is the environment:     *)
(* every call picks its response nondeterministically.  This is Spec.      *)
(*                                                                         *)
(* Other parts have a specification of their own:                          *)
(*   SpecLimiter   RateLimiter.wait (src/youtube_playlist.py and           *)
(*                 src/Untitled-2.py), with a clock                        *)
(*   SpecWindow    _check_rate_limit and its two callers                   *)
(*                 (src/youtube_manager.py), with a clock                  *)
(*   SpecText      normalize and isDuplicate, applied to bounded sets of   *)
(*                 titles                                                  *)
(*   SpecMain      main configures the agent and runs process_song_list    *)
(*   SpecSongList  process_song_list alone, with fairness, for its         *)
(*                 termination                                             *)
(*   SpecRobust    robust_search_with_recovery and async_timeout           *)
(*                 (src/timeout_manager.py)                                *)
(*   SpecBatch     safe_batch_process (src/timeout_manager.py)             *)
(***************************************************************************)
EXTENDS Integers, Sequences, FiniteSets, TLC

(***************************************************************************)
(* Bounds of the model.                                                    *)
(***************************************************************************)
MaxSongs == 2          \* longest input list
MaxBatch == 2          \* largest batch size tried
QuotaLow == 200        \* a budget that is not a multiple of the item cost
QuotaHigh == 300       \* a budget that is exactly two items' cost

IntervalTicks == 2     \* clock ticks in one minimum interval of the RateLimiter
MaxTime == 8           \* the clock stops here
MaxTitleLen == 4       \* longest title given to normalize, in characters
MaxWords == 3          \* longest title given to isDuplicate, in words
WindowTicks == 3       \* clock ticks in one window of the request limiter
MaxRequests == 2       \* the request limiter's max_requests, scaled down from 60
MaxTasks == 3          \* tasks of the event loop besides the caller's

Titles == {"a", "b"}     \* titles that are not empty after _sanitize_text
VideoIds == {"v1", "v2"}
BatchSizes == 1..MaxBatch
DailyQuotas == {QuotaLow, QuotaHigh}

(***************************************************************************)
(* Program constants.                                                      *)
(***************************************************************************)
max_retries == 3            \* self.security['max_retries']
daily_quota == 10000
search_cost == 100
playlist_insert_cost == 50

calls_per_second == 2

None == "None"
ErrNoResults == "No search results found"
ErrInvalidId == "Invalid video ID"
ErrException == "exception"
ErrNoMatches == "No matches found on YouTube Music"
ErrVideoIdMissing == "Video ID not found in search result."

Min(x, y) == IF x < y THEN x ELSE y

Range(f) == {f[k] : k \in DOMAIN f}

SeqsUpTo(S, n) == UNION {[1..k -> S] : k \in 0..n}

InputLists == SeqsUpTo(Titles, MaxSongs)

VARIABLES
    run,                \* entry point of the run: "none", "song_list", "quota", "playlist"
    pc,                 \* position of the run's control
    ret,                \* how the entry point ended: "none", "returned", "raised"
    input,              \* the list of titles the caller passed
    songs,              \* process_song_list / process_with_quota: local `songs`
    batch_size,         \* agent.batch_size, or process_with_quota's batch_size
    create_new,         \* process_song_list's create_new flag
    existing,           \* video ids present in the target playlist when the run starts
    current_playlist_id,\* agent.current_playlist_id
    quota_settings,     \* agent.quota_settings
    processed_videos,   \* agent.processed_videos
    agent_max_retries,  \* agent.max_retries, the attribute main sets from its slider
    results,            \* process_song_list: results dict
    i,                  \* batch start index of the outer loop
    batch_results,      \* process_batch: batch_results dict
    idx,                \* process_batch: position in the batch
    attempt,            \* _process_with_retry: loop variable
    result,             \* _process_with_retry: result dict
    video_id,           \* _process_with_retry / process_playlist: extracted id
    total_quota,        \* process_with_quota: accumulated estimate
    qresults,           \* process_with_quota: results list
    warning,            \* process_with_quota: count shown by st.warning, -1 if none
    pl,                 \* process_playlist: results dict
    df,                 \* process_playlist: per-row Transfer_Status / Error_Details
    row,                \* process_playlist: row index
    issuedCost,         \* history: cost of the billable calls issued, counted up to CostCap
    addedIds,           \* history: video ids inserted into the playlist by the run
    readded,            \* history: ids an insert call was issued for while in the playlist
    maxItemCalled,      \* history: highest item position a catalog call was issued for
    raisedItems,        \* history: item positions where a call or step raised
    cur,                \* history of the item in flight: its calls and search outcomes
    searchCalls,        \* history: search calls issued in the run, counted up to CallCap
    now,                \* the clock, in ticks
    wake,               \* when the pending asyncio.sleep is due
    limiter,            \* RateLimiter: the class's file and its last_call_time
    lpc,                \* RateLimiter.wait: position of the call in progress
    current_time,       \* RateLimiter.wait: local current_time
    lastReturn,         \* history: when the latest wait() returned, -1 if none has
    prevReturn,         \* history: when the wait() before it returned, -1 if none
    rate_limit,         \* agent.rate_limit
    wpc,                \* position of the rate-limited caller
    callsLeft,          \* catalog calls _process_with_retry may still issue for the song
    issued,             \* history: times of the catalog calls issued in the current window
    title,              \* TextNormalizer / DuplicateMatcher: the title given
    other,              \* DuplicateMatcher: the existing title it is compared with
    tpc,                \* which function the title is for, "done" once it was applied
    normalized,         \* normalize(title)
    renormalized,       \* normalize(normalize(title).canonicalForm)
    verdicts,           \* isDuplicate both ways round and in every order of the checks
    rpc,                \* robust_search_with_recovery: position of the call
    rattempt,           \* robust_search_with_recovery: loop variable `attempt`
    delay,              \* robust_search_with_recovery: local `delay`, in half-seconds
    last_exception,     \* robust_search_with_recovery: local `last_exception`
    coro,               \* the behaviour of the coroutine async_timeout last ran
    timed,              \* what async_timeout did with it
    rret,               \* what robust_search_with_recovery returned or raised
    attemptLog,         \* history: how each search attempt ended
    sleepLog,           \* history: the sleeps, each with the attempt it followed
    bpc,                \* safe_batch_process: position of the call
    tasks,              \* the event loop's other tasks and their states
    pending,            \* safe_batch_process: tasks of all_tasks() not yet visited
    cancelled,          \* history: tasks safe_batch_process called cancel() on
    bret                \* what safe_batch_process returned or raised

runVars == <<run, pc, ret, input, songs, batch_size, create_new, existing,
             current_playlist_id, quota_settings, processed_videos,
             agent_max_retries, results, i,
             batch_results, idx, attempt, result, video_id, total_quota,
             qresults, warning, pl, df, row, issuedCost, addedIds, readded,
             maxItemCalled, raisedItems, cur, searchCalls>>

clockVars == <<now, wake>>
limiterVars == <<limiter, lpc, current_time, lastReturn, prevReturn>>
windowVars == <<rate_limit, wpc, callsLeft, issued>>
textVars == <<title, other, tpc, normalized, renormalized, verdicts>>
robustVars == <<rpc, rattempt, delay, last_exception, coro, timed, rret,
                attemptLog, sleepLog>>
batchVars == <<bpc, tasks, pending, cancelled, bret>>
timeoutVars == <<robustVars, batchVars>>
auxVars == <<clockVars, limiterVars, windowVars, textVars, timeoutVars>>

vars == <<runVars, auxVars>>

agentVars == <<results, i, batch_results, idx, attempt, result, video_id>>
quotaVars == <<total_quota, qresults, warning>>
playlistVars == <<pl, df, row>>
histVars == <<issuedCost, addedIds, readded, maxItemCalled, raisedItems,
              cur, searchCalls>>
configVars == <<input, songs, batch_size, create_new, existing,
                current_playlist_id, quota_settings, processed_videos,
                agent_max_retries>>

(***************************************************************************)
(* list(dict.fromkeys(songs)): first occurrences, in order.                *)
(***************************************************************************)
RECURSIVE DedupFrom(_, _)
DedupFrom(s, acc) ==
    IF s = <<>> THEN acc
    ELSE IF \E k \in 1..Len(acc) : acc[k] = Head(s)
         THEN DedupFrom(Tail(s), acc)
         ELSE DedupFrom(Tail(s), Append(acc, Head(s)))

DedupSongs(s) == DedupFrom(s, <<>>)

(***************************************************************************)
(* songs[start_idx:start_idx + self.batch_size]                            *)
(***************************************************************************)
BatchSlice(s, start, bs) == SubSeq(s, start + 1, Min(start + bs, Len(s)))

EmptyResults ==
    [playlist_id |-> None, total_songs |-> 0, successful |-> 0,
     failed |-> <<>>, details |-> <<>>]

EmptyBatchResults == [successful |-> 0, failed |-> <<>>, details |-> <<>>]

NewResult(song) ==
    [success |-> FALSE,
     details |-> [song |-> song, status |-> "Failed", error |-> None,
                  video_id |-> None]]

NoItem == [success |-> FALSE,
           details |-> [song |-> None, status |-> None, error |-> None,
                        video_id |-> None]]

EmptyPl == [total_songs |-> 0, matched_songs |-> 0, unmatched_songs |-> <<>>,
            errors |-> <<>>]

\* searches, adds: calls issued for the item; addFails: add calls that did not
\* succeed; kinds: outcomes of its searches; lastMsg: the message its latest
\* failed attempt stored in result (None if that attempt stored none); slept:
\* the latest failed attempt, the call that failed it and the seconds the
\* retry loop slept after it
NotSlept == [after |-> None, attempt |-> -1, secs |-> 0]

NewCur == [searches |-> 0, adds |-> 0, addFails |-> 0, kinds |-> {},
           lastMsg |-> None, slept |-> NotSlept]

\* the history counters stop counting here
CostCap == QuotaHigh + search_cost + playlist_insert_cost

Charge(cost, c) == Min(cost + c, CostCap)

CallCap == MaxSongs * max_retries + 1

CountCall(n) == Min(n + 1, CallCap)


RunInit ==
    /\ run = "none"
    /\ pc = "idle"
    /\ ret = "none"
    /\ input = <<>>
    /\ songs = <<>>
    /\ batch_size = 1
    /\ create_new = TRUE
    /\ existing = {}
    /\ current_playlist_id = None
    /\ quota_settings = [daily_quota |-> daily_quota, search_cost |-> search_cost,
                         playlist_insert_cost |-> playlist_insert_cost,
                         current_quota |-> 0]
    /\ processed_videos = {}
    /\ agent_max_retries = max_retries          \* the slider's default
    /\ results = EmptyResults
    /\ i = 0
    /\ batch_results = EmptyBatchResults
    /\ idx = 0
    /\ attempt = 0
    /\ result = NoItem
    /\ video_id = None
    /\ total_quota = 0
    /\ qresults = <<>>
    /\ warning = -1
    /\ pl = EmptyPl
    /\ df = <<>>
    /\ row = 0
    /\ issuedCost = 0
    /\ addedIds = {}
    /\ readded = {}
    /\ maxItemCalled = 0
    /\ raisedItems = {}
    /\ cur = NewCur
    /\ searchCalls = 0

ClockInit ==
    /\ now = 0
    /\ wake = 0

\* RateLimiter.__init__ (calls_per_second = 2): last_call_time = 0
LimiterIdle ==
    /\ limiter = [file |-> "youtube_playlist.py", last_call_time |-> 0]
    /\ lpc = "idle"
    /\ current_time = 0
    /\ lastReturn = -1
    /\ prevReturn = -1

\* __init__, lines 116-121; the window is counted in ticks
WindowIdle ==
    /\ rate_limit = [window_size |-> WindowTicks, max_requests |-> MaxRequests,
                     requests |-> <<>>]
    /\ wpc = "idle"
    /\ callsLeft = 0
    /\ issued = <<>>

EmptyNormalized == [canonicalForm |-> <<>>, coreTokens |-> {}, aliasForms |-> {}]

TextIdle ==
    /\ title = <<>>
    /\ other = <<>>
    /\ tpc = "idle"
    /\ normalized = EmptyNormalized
    /\ renormalized = EmptyNormalized
    /\ verdicts = {}

NoCoro == [takes |-> 0, ends |-> None, value |-> None]

NotTimed == [success |-> FALSE, value |-> None, propagates |-> None]

RobustIdle ==
    /\ rpc = "idle"
    /\ rattempt = 0
    /\ delay = 0
    /\ last_exception = None
    /\ coro = NoCoro
    /\ timed = NotTimed
    /\ rret = None
    /\ attemptLog = <<>>
    /\ sleepLog = <<>>

BatchIdle ==
    /\ bpc = "idle"
    /\ tasks = <<>>
    /\ pending = {}
    /\ cancelled = {}
    /\ bret = None

TimeoutIdle == RobustIdle /\ BatchIdle

Init ==
    /\ RunInit
    /\ ClockInit
    /\ LimiterIdle
    /\ WindowIdle
    /\ TextIdle
    /\ TimeoutIdle

(***************************************************************************)
(* The catalog's responses.                                                *)
(*                                                                         *)
(* search().list(...).execute() either raises or returns at most one item  *)
(* (maxResults = 1).  An item carries a video id, lacks it, or has an 'id' *)
(* that is not a dict, on which .get raises.                               *)
(***************************************************************************)
Items == {[shape |-> "video", videoId |-> v] : v \in VideoIds}
           \cup {[shape |-> "noid", videoId |-> None],
                 [shape |-> "malformed", videoId |-> None]}

SearchResponses ==
    {[raises |-> TRUE, items |-> <<>>], [raises |-> FALSE, items |-> <<>>]}
      \cup {[raises |-> FALSE, items |-> <<it>>] : it \in Items}

ResponseKind(resp) ==
    IF resp.raises THEN "raise"
    ELSE IF resp.items = <<>> THEN "empty"
    ELSE resp.items[1].shape

\* playlistItems().insert(...).execute(): a response with an id, one without,
\* or an exception
AddResponses == {"ok", "rejected", "raise"}

ExistingSets == {{}, {"v1"}}

\* main, line 1285: the "Max Retries" slider goes from 1 to 5 and starts at 3;
\* its lowest value and its default are tried
RetrySettings == {1, 3}

(***************************************************************************)
(* search_song_youtube_api: None (here the empty list, equally falsy) when *)
(* the call raises or finds nothing, the items otherwise.                  *)
(***************************************************************************)
search_song_youtube_api(resp) ==
    IF resp.raises THEN <<>>
    ELSE IF resp.items = <<>> THEN <<>>
    ELSE resp.items

\* get_best_match with the default search_type "ytmusic": the first result
get_best_match(search_results) == search_results[1]

\* add_song_to_playlist_youtube_api: True only for a response with an id
add_song_to_playlist_youtube_api(resp) == resp = "ok"

\* RecordResult, keeping the details of successful songs only
RecordResult_DropFailedDetails(br, song, res) ==
    [successful |-> IF res.success THEN br.successful + 1 ELSE br.successful,
     failed |-> IF res.success THEN br.failed ELSE Append(br.failed, song),
     details |-> IF res.success THEN Append(br.details, res.details)
                 ELSE br.details]

\* RecordResult, counting the song without appending its details
RecordResult_CountOnly(br, song, res) ==
    [successful |-> IF res.success THEN br.successful + 1 ELSE br.successful,
     failed |-> IF res.success THEN br.failed ELSE Append(br.failed, song),
     details |-> br.details]

(***************************************************************************)
(* process_batch, lines 385-390: count the result and keep its details.    *)
(***************************************************************************)
RecordResult(br, song, res) ==
    [successful |-> IF res.success THEN br.successful + 1 ELSE br.successful,
     failed |-> IF res.success THEN br.failed ELSE Append(br.failed, song),
     details |-> Append(br.details, res.details)]

\* Accumulate, with the success count assigned instead of added
Accumulate_Overwrite(rs, br) ==
    [rs EXCEPT !.successful = br.successful,
               !.failed = @ \o br.failed,
               !.details = @ \o br.details]

\* Accumulate, with the batch's details put in front
Accumulate_Prepend(rs, br) ==
    [rs EXCEPT !.successful = @ + br.successful,
               !.failed = @ \o br.failed,
               !.details = br.details \o @]

(***************************************************************************)
(* process_song_list, lines 524-526.                                       *)
(***************************************************************************)
Accumulate(rs, br) ==
    [rs EXCEPT !.successful = @ + br.successful,
               !.failed = @ \o br.failed,
               !.details = @ \o br.details]

\* position in `songs` of the item in flight
ItemPos == i + idx + 1

(***************************************************************************)
(* process_song_list                                                       *)
(***************************************************************************)
CallProcessSongList ==
    /\ pc = "idle"
    /\ \E inp \in InputLists, bs \in BatchSizes, cn \in BOOLEAN,
          ex \in ExistingSets :
          /\ cn => ex = {}
          /\ input' = inp
          /\ songs' = DedupSongs(inp)
          /\ batch_size' = bs
          /\ create_new' = cn
          /\ existing' = ex
          /\ current_playlist_id' = IF cn THEN None ELSE "PL0"
          /\ results' = [EmptyResults EXCEPT !.total_songs = Len(DedupSongs(inp))]
    /\ run' = "song_list"
    /\ pc' = "psl_create"
    /\ UNCHANGED <<ret, quota_settings, processed_videos, i, batch_results,
                   idx, attempt, result, video_id>>
    /\ UNCHANGED <<quotaVars, playlistVars, histVars>>
    /\ UNCHANGED auxVars

\* lines 488-502, called on an agent as __init__ left it
ProcessSongList ==
    /\ CallProcessSongList
    /\ UNCHANGED agent_max_retries

\* main, lines 1283-1299: the agent is configured from the sliders, then
\* process_song_list is run
Main ==
    /\ \E mr \in RetrySettings : agent_max_retries' = mr
    /\ CallProcessSongList

\* lines 504-517: the playlist is created, or the existing id is used
PslResolveTarget ==
    /\ pc = "psl_create"
    /\ IF create_new
       THEN /\ results' = [results EXCEPT !.playlist_id = "PL1"]
            /\ current_playlist_id' = "PL1"
       ELSE /\ results' = [results EXCEPT !.playlist_id = current_playlist_id]
            /\ UNCHANGED current_playlist_id
    /\ pc' = "psl_loop"
    /\ UNCHANGED <<run, ret, input, songs, batch_size, create_new, existing,
                   quota_settings, processed_videos, agent_max_retries, i,
                   batch_results, idx, attempt, result, video_id>>
    /\ UNCHANGED <<quotaVars, playlistVars, histVars>>
    /\ UNCHANGED auxVars

\* lines 193-195 and 528-530: the creation raises and the exception is re-raised
PslCreateFails ==
    /\ pc = "psl_create"
    /\ create_new
    /\ pc' = "done"
    /\ ret' = "raised"
    /\ UNCHANGED <<run, configVars, agentVars, quotaVars, playlistVars, histVars>>
    /\ UNCHANGED auxVars

\* lines 520-522: the next batch is handed to process_batch
PslNextBatch ==
    /\ pc = "psl_loop"
    /\ i < Len(songs)
    /\ batch_results' = EmptyBatchResults
    /\ idx' = 0
    /\ pc' = "pb_loop"
    /\ UNCHANGED <<run, ret, configVars, results, i, attempt, result, video_id>>
    /\ UNCHANGED <<quotaVars, playlistVars, histVars>>
    /\ UNCHANGED auxVars

\* line 532
PslReturn ==
    /\ pc = "psl_loop"
    /\ i >= Len(songs)
    /\ pc' = "done"
    /\ ret' = "returned"
    /\ UNCHANGED <<run, configVars, agentVars, quotaVars, playlistVars, histVars>>
    /\ UNCHANGED auxVars

(***************************************************************************)
(* process_batch                                                           *)
(***************************************************************************)
\* lines 377-383: the next song of the slice enters _process_with_retry.
\* The result of _check_rate_limit is not looked at here, and the handler of
\* lines 395-397 has nothing to catch: _check_rate_limit raises nothing,
\* _process_with_retry and _update_status catch every Exception themselves.
PbNextItem ==
    /\ pc = "pb_loop"
    /\ run = "song_list"
    /\ idx < Len(BatchSlice(songs, i, batch_size))
    /\ result' = NewResult(BatchSlice(songs, i, batch_size)[idx + 1])
    /\ attempt' = 0
    /\ video_id' = None
    /\ cur' = NewCur
    /\ pc' = "retry_loop"
    /\ UNCHANGED <<run, ret, configVars, results, i, batch_results, idx>>
    /\ UNCHANGED <<quotaVars, playlistVars, issuedCost, addedIds, readded,
                   maxItemCalled, raisedItems, searchCalls>>
    /\ UNCHANGED auxVars

\* lines 385-393
PbRecord ==
    /\ pc = "item_done"
    /\ run = "song_list"
    /\ batch_results' = RecordResult(batch_results, result.details.song, result)
    /\ idx' = idx + 1
    /\ pc' = "pb_loop"
    /\ UNCHANGED <<run, ret, configVars, results, i, attempt, result, video_id>>
    /\ UNCHANGED <<quotaVars, playlistVars, histVars>>
    /\ UNCHANGED auxVars

\* line 399, then process_song_list lines 524-526
PbReturn ==
    /\ pc = "pb_loop"
    /\ run = "song_list"
    /\ idx >= Len(BatchSlice(songs, i, batch_size))
    /\ results' = Accumulate(results, batch_results)
    /\ i' = i + batch_size
    /\ pc' = "psl_loop"
    /\ UNCHANGED <<run, ret, configVars, batch_results, idx, attempt, result,
                   video_id>>
    /\ UNCHANGED <<quotaVars, playlistVars, histVars>>
    /\ UNCHANGED auxVars

(***************************************************************************)
(* _process_with_retry                                                     *)
(***************************************************************************)
\* NextAttempt, staying at the same attempt
NextAttempt_Same(a) == a

\* line 547: `for attempt in range(...)` takes the next value
NextAttempt(a) == a + 1

\* line 589, the only sleep of the retry loop: one second, in the handler of
\* an exception; an attempt that ends without one (`continue`, or an add that
\* returned False) is followed by the next attempt at once.  The pause of
\* self.delay that every catalog call starts with is the same for each call.
RetrySleep(raised) == IF raised THEN 1 ELSE 0

Slept(call, raised) ==
    [after |-> call, attempt |-> attempt, secs |-> RetrySleep(raised)]

NoteSearch(resp, msg, slept) ==
    /\ issuedCost' = Charge(issuedCost, quota_settings.search_cost)
    /\ maxItemCalled' = IF ItemPos > maxItemCalled THEN ItemPos ELSE maxItemCalled
    /\ searchCalls' = CountCall(searchCalls)
    /\ cur' = [cur EXCEPT !.searches = @ + 1,
                          !.kinds = @ \cup {ResponseKind(resp)},
                          !.lastMsg = msg,
                          !.slept = slept]

\* lines 550-554: the search raises or finds nothing
SearchNothing ==
    /\ pc = "retry_loop"
    /\ attempt < max_retries
    /\ \E resp \in SearchResponses :
          /\ search_song_youtube_api(resp) = <<>>
          /\ NoteSearch(resp, ErrNoResults, Slept("search", FALSE))
          /\ raisedItems' = IF resp.raises THEN raisedItems \cup {ItemPos}
                            ELSE raisedItems
    /\ result' = [result EXCEPT !.details.error = ErrNoResults]
    /\ attempt' = NextAttempt(attempt)
    /\ UNCHANGED <<run, pc, ret, configVars, results, i, batch_results, idx,
                   video_id, addedIds, readded>>
    /\ UNCHANGED <<quotaVars, playlistVars>>
    /\ UNCHANGED auxVars

\* lines 562-566: the first result has no video id
SearchNoId ==
    /\ pc = "retry_loop"
    /\ attempt < max_retries
    /\ \E resp \in SearchResponses :
          /\ search_song_youtube_api(resp) # <<>>
          /\ get_best_match(search_song_youtube_api(resp)).shape = "noid"
          /\ NoteSearch(resp, ErrInvalidId, Slept("search", FALSE))
    /\ result' = [result EXCEPT !.details.error = ErrInvalidId]
    /\ attempt' = NextAttempt(attempt)
    /\ UNCHANGED <<run, pc, ret, configVars, results, i, batch_results, idx,
                   video_id, addedIds, readded,
                   raisedItems>>
    /\ UNCHANGED <<quotaVars, playlistVars>>
    /\ UNCHANGED auxVars

\* lines 563, 587-589: extracting the id raises; the handler records str(e)
SearchMalformed ==
    /\ pc = "retry_loop"
    /\ attempt < max_retries
    /\ \E resp \in SearchResponses :
          /\ search_song_youtube_api(resp) # <<>>
          /\ get_best_match(search_song_youtube_api(resp)).shape = "malformed"
          /\ NoteSearch(resp, ErrException, Slept("search", TRUE))
    /\ raisedItems' = raisedItems \cup {ItemPos}
    /\ result' = [result EXCEPT !.details.error = ErrException]
    /\ attempt' = NextAttempt(attempt)
    /\ UNCHANGED <<run, pc, ret, configVars, results, i, batch_results, idx,
                   video_id, addedIds, readded>>
    /\ UNCHANGED <<quotaVars, playlistVars>>
    /\ UNCHANGED auxVars

\* lines 550-566: a result with a video id; the add call comes next
SearchFound ==
    /\ pc = "retry_loop"
    /\ attempt < max_retries
    /\ \E resp \in SearchResponses :
          /\ search_song_youtube_api(resp) # <<>>
          /\ get_best_match(search_song_youtube_api(resp)).shape = "video"
          /\ NoteSearch(resp, cur.lastMsg, cur.slept)
          /\ video_id' = get_best_match(search_song_youtube_api(resp)).videoId
    /\ pc' = "retry_add"
    /\ UNCHANGED <<run, ret, configVars, results, i, batch_results, idx,
                   attempt, result, addedIds, readded,
                   raisedItems>>
    /\ UNCHANGED <<quotaVars, playlistVars>>
    /\ UNCHANGED auxVars

InPlaylist(v) == v \in existing \cup addedIds

NoteAdd(failed) ==
    /\ issuedCost' = Charge(issuedCost, quota_settings.playlist_insert_cost)
    /\ readded' = IF InPlaylist(video_id) THEN readded \cup {video_id}
                  ELSE readded
    /\ cur' = IF failed
              THEN [cur EXCEPT !.adds = @ + 1, !.addFails = @ + 1,
                               !.lastMsg = None,
                               !.slept = Slept("add", FALSE)]
              ELSE [cur EXCEPT !.adds = @ + 1]

\* lines 568-585: the add call succeeds
AddSucceeds ==
    /\ pc = "retry_add"
    /\ \E resp \in AddResponses :
          /\ add_song_to_playlist_youtube_api(resp)
    /\ NoteAdd(FALSE)
    /\ addedIds' = addedIds \cup {video_id}
    /\ result' = [success |-> TRUE,
                  details |-> [song |-> result.details.song, status |-> "Added",
                               video_id |-> video_id, error |-> None]]
    /\ pc' = "item_done"
    /\ UNCHANGED <<run, ret, configVars, results, i, batch_results, idx,
                   attempt, video_id, maxItemCalled, raisedItems,
                   searchCalls>>
    /\ UNCHANGED <<quotaVars, playlistVars>>
    /\ UNCHANGED auxVars

\* AfterAddFails, giving the song up at its first failed add
AfterAddFails_GiveUp == "item_done"

\* lines 574, 548: `if success` is false and the try block ends; the for loop
\* takes the next attempt
AfterAddFails == "retry_loop"

\* lines 568-574, 316-321: the add call returns False (a response without an
\* id, or an exception that add_song_to_playlist_youtube_api catches and
\* logs); nothing is stored in result
AddFails ==
    /\ pc = "retry_add"
    /\ \E resp \in AddResponses :
          /\ ~add_song_to_playlist_youtube_api(resp)
          /\ raisedItems' = IF resp = "raise" THEN raisedItems \cup {ItemPos}
                            ELSE raisedItems
    /\ NoteAdd(TRUE)
    /\ attempt' = NextAttempt(attempt)
    /\ pc' = AfterAddFails
    /\ UNCHANGED <<run, ret, configVars, results, i, batch_results, idx,
                   result, video_id, addedIds, maxItemCalled, searchCalls>>
    /\ UNCHANGED <<quotaVars, playlistVars>>
    /\ UNCHANGED auxVars

\* line 591: the attempts are used up
RetryExhausted ==
    /\ pc = "retry_loop"
    /\ attempt >= max_retries
    /\ pc' = "item_done"
    /\ UNCHANGED <<run, ret, configVars, agentVars, quotaVars, playlistVars,
                   histVars>>
    /\ UNCHANGED auxVars

(***************************************************************************)
(* process_with_quota                                                      *)
(*                                                                         *)
(* The budget and the per-call costs are read from quota_settings; the     *)
(* caller's configured budget is drawn from DailyQuotas when the run       *)
(* starts.  The method it calls for a batch, _process_batch, has no        *)
(* definition in src/youtube_manager.py; QbNextItem, QbRecord and          *)
(* BatchOutcomes model it as the specification's batch step: every song of *)
(* the batch goes through _process_with_retry, in order, and yields one    *)
(* outcome.                                                                *)
(***************************************************************************)
\* lines 600-601
EstimatedQuota(n) ==
    n * (quota_settings.search_cost + quota_settings.playlist_insert_cost)

\* WouldExceed, comparing what is already accumulated only
WouldExceed_IgnoresEstimate(total, estimated) ==
    total > quota_settings.daily_quota

\* WouldExceed, halting already when the budget would be met exactly
WouldExceed_AtBudget(total, estimated) ==
    total + estimated >= quota_settings.daily_quota

\* WouldExceed, never halting
WouldExceed_Never(total, estimated) == FALSE

\* line 603
WouldExceed(total, estimated) == total + estimated > quota_settings.daily_quota

Batch == BatchSlice(songs, i, batch_size)

\* AddEstimate, taking the estimate off the counter
AddEstimate_Subtract(total, estimated) == total - estimated

\* line 609: total_quota += estimated_quota
AddEstimate(total, estimated) == total + estimated

\* lines 595-596
ProcessWithQuota ==
    /\ pc = "idle"
    /\ \E inp \in InputLists, bs \in BatchSizes, q \in DailyQuotas :
          /\ input' = inp
          /\ songs' = inp
          /\ batch_size' = bs
          /\ quota_settings' = [quota_settings EXCEPT !.daily_quota = q]
    /\ current_playlist_id' = "PL0"
    /\ qresults' = <<>>
    /\ total_quota' = 0
    /\ i' = 0
    /\ run' = "quota"
    /\ pc' = "pwq_loop"
    /\ UNCHANGED <<ret, create_new, existing, processed_videos,
                   agent_max_retries, results, batch_results, idx, attempt,
                   result, video_id, warning>>
    /\ UNCHANGED <<playlistVars, histVars>>
    /\ UNCHANGED auxVars

\* lines 603-605, 617: the batch does not fit; warn, leave the loop, return
PwqHalt ==
    /\ pc = "pwq_loop"
    /\ i < Len(songs)
    /\ WouldExceed(total_quota, EstimatedQuota(Len(Batch)))
    /\ warning' = i
    /\ pc' = "done"
    /\ ret' = "returned"
    /\ UNCHANGED <<run, configVars, agentVars, total_quota, qresults>>
    /\ UNCHANGED <<playlistVars, histVars>>
    /\ UNCHANGED auxVars

\* line 607: the batch fits and is handed to _process_batch
PwqNextBatch ==
    /\ pc = "pwq_loop"
    /\ i < Len(songs)
    /\ ~WouldExceed(total_quota, EstimatedQuota(Len(Batch)))
    /\ batch_results' = EmptyBatchResults
    /\ idx' = 0
    /\ pc' = "qb_loop"
    /\ UNCHANGED <<run, ret, configVars, results, i, attempt, result, video_id>>
    /\ UNCHANGED <<quotaVars, playlistVars, histVars>>
    /\ UNCHANGED auxVars

\* _process_batch: the next song of the batch enters _process_with_retry
QbNextItem ==
    /\ pc = "qb_loop"
    /\ idx < Len(Batch)
    /\ result' = NewResult(Batch[idx + 1])
    /\ attempt' = 0
    /\ video_id' = None
    /\ cur' = NewCur
    /\ pc' = "retry_loop"
    /\ UNCHANGED <<run, ret, configVars, results, i, batch_results, idx>>
    /\ UNCHANGED <<quotaVars, playlistVars, issuedCost, addedIds, readded,
                   maxItemCalled, raisedItems, searchCalls>>
    /\ UNCHANGED auxVars

\* _process_batch: the outcomes it returns
BatchOutcomes(br, res) == [br EXCEPT !.details = Append(@, res.details)]

\* _process_batch: the song's outcome is kept
QbRecord ==
    /\ pc = "item_done"
    /\ run = "quota"
    /\ batch_results' = BatchOutcomes(batch_results, result)
    /\ idx' = idx + 1
    /\ pc' = "qb_loop"
    /\ UNCHANGED <<run, ret, configVars, results, i, attempt, result, video_id>>
    /\ UNCHANGED <<quotaVars, playlistVars, histVars>>
    /\ UNCHANGED auxVars

\* lines 608-615: the batch's outcomes and its estimate are accumulated
\* (_update_status draws the progress bar, _save_progress writes a file)
PwqAfterBatch ==
    /\ pc = "qb_loop"
    /\ idx >= Len(Batch)
    /\ qresults' = qresults \o batch_results.details
    /\ total_quota' = AddEstimate(total_quota, EstimatedQuota(Len(Batch)))
    /\ i' = i + batch_size
    /\ pc' = "pwq_loop"
    /\ UNCHANGED <<run, ret, configVars, results, batch_results, idx, attempt,
                   result, video_id, warning>>
    /\ UNCHANGED <<playlistVars, histVars>>
    /\ UNCHANGED auxVars

\* line 617: the list is exhausted
PwqReturn ==
    /\ pc = "pwq_loop"
    /\ i >= Len(songs)
    /\ pc' = "done"
    /\ ret' = "returned"
    /\ UNCHANGED <<run, configVars, agentVars, quotaVars, playlistVars, histVars>>
    /\ UNCHANGED auxVars

\* line 617, `return results`: what the caller of process_with_quota gets.
\* It is the list of outcomes; `halt` stands for run-level information
\* returned with it, and there is none: the count of line 604 goes to
\* st.warning only.
ReturnValue == [ledger |-> qresults, halt |-> None]

(***************************************************************************)
(* PlaylistTransfer.process_playlist                                       *)
(*                                                                         *)
(* `input` holds the song column of the CSV, one title per row.            *)
(* YouTubeMusicHandler.search_song and add_to_playlist retry inside        *)
(* themselves (tenacity, 3 attempts, reraise); an action below is one call *)
(* of the handler method with the outcome the caller sees.                 *)
(***************************************************************************)
NewRow == [status |-> "", error |-> ""]

\* lines 856-862
ProcessPlaylist ==
    /\ pc = "idle"
    /\ \E rows \in InputLists : input' = rows
    /\ pl' = EmptyPl
    /\ df' = <<>>
    /\ row' = 0
    /\ run' = "playlist"
    /\ pc' = "pl_setup"
    /\ UNCHANGED <<ret, songs, batch_size, create_new, existing,
                   current_playlist_id, quota_settings, processed_videos,
                   agent_max_retries>>
    /\ UNCHANGED <<agentVars, quotaVars, histVars>>
    /\ UNCHANGED auxVars

\* lines 866-888: the CSV is read and gets its status columns
PlSetup ==
    /\ pc = "pl_setup"
    /\ input # <<>>
    /\ df' = [k \in 1..Len(input) |-> NewRow]
    /\ pc' = "pl_create"
    /\ UNCHANGED <<run, ret, configVars, agentVars, quotaVars, pl, row, histVars>>
    /\ UNCHANGED auxVars

\* lines 873-878, 961-965: no song column, or an empty CSV; the ValueError is
\* caught by the outer handler, which returns the results
PlSetupFails ==
    /\ pc = "pl_setup"
    /\ pc' = "done"
    /\ ret' = "returned"
    /\ UNCHANGED <<run, configVars, agentVars, quotaVars, playlistVars, histVars>>
    /\ UNCHANGED auxVars

\* lines 892-902
PlCreate ==
    /\ pc = "pl_create"
    /\ pl' = [pl EXCEPT !.total_songs = Len(df)]
    /\ pc' = "pl_loop"
    /\ UNCHANGED <<run, ret, configVars, agentVars, quotaVars, df, row, histVars>>
    /\ UNCHANGED auxVars

\* lines 892, 961-965: create_playlist raises; the outer handler returns
PlCreateFails ==
    /\ pc = "pl_create"
    /\ pc' = "done"
    /\ ret' = "returned"
    /\ UNCHANGED <<run, configVars, agentVars, quotaVars, playlistVars, histVars>>
    /\ UNCHANGED auxVars

RowSong == input[row + 1]

NoteRowSearch(kind) ==
    /\ maxItemCalled' = IF row + 1 > maxItemCalled THEN row + 1 ELSE maxItemCalled
    /\ searchCalls' = CountCall(searchCalls)
    /\ cur' = [NewCur EXCEPT !.searches = 1, !.kinds = {kind}]

\* lines 943-954: the row's exception is recorded
RowError(msg) ==
    /\ df' = [df EXCEPT ![row + 1] = [status |-> "Error", error |-> msg]]
    /\ pl' = [pl EXCEPT !.errors = Append(@, [song |-> RowSong, error |-> msg])]
    /\ raisedItems' = raisedItems \cup {row + 1}

\* AfterRowError, leaving the loop instead of continuing
AfterRowError_Abort == "done"

\* line 954: `continue`, the loop goes to the next row
AfterRowError == "pl_loop"

\* lines 914-917: the search returns matches and the first has a video id
PlSearchFound ==
    /\ pc = "pl_loop"
    /\ row < pl.total_songs
    /\ \E v \in VideoIds : video_id' = v
    /\ NoteRowSearch("video")
    /\ pc' = "pl_add"
    /\ UNCHANGED <<run, ret, configVars, results, i, batch_results, idx,
                   attempt, result>>
    /\ UNCHANGED <<quotaVars, playlistVars, issuedCost, addedIds, readded, raisedItems>>
    /\ UNCHANGED auxVars

\* lines 932-941: the search returns nothing
PlSearchNothing ==
    /\ pc = "pl_loop"
    /\ row < pl.total_songs
    /\ NoteRowSearch("empty")
    /\ df' = [df EXCEPT ![row + 1] = [status |-> "Not Found", error |-> ErrNoMatches]]
    /\ pl' = [pl EXCEPT !.unmatched_songs = Append(@, RowSong)]
    /\ row' = row + 1
    /\ UNCHANGED <<run, pc, ret, configVars, agentVars, quotaVars>>
    /\ UNCHANGED <<issuedCost, addedIds, readded, raisedItems>>
    /\ UNCHANGED auxVars

\* lines 914, 943-954: search_song raises
PlSearchRaises ==
    /\ pc = "pl_loop"
    /\ row < pl.total_songs
    /\ NoteRowSearch("raise")
    /\ RowError(ErrException)
    /\ row' = row + 1
    /\ pc' = AfterRowError
    /\ UNCHANGED <<run, ret, configVars, agentVars, quotaVars>>
    /\ UNCHANGED <<issuedCost, addedIds, readded>>
    /\ UNCHANGED auxVars

\* lines 917-919, 943-954: the first match has an empty video id (ValueError)
\* or none at all (KeyError)
PlSearchNoId ==
    /\ pc = "pl_loop"
    /\ row < pl.total_songs
    /\ \E shape \in {"noid", "malformed"} :
          /\ NoteRowSearch(shape)
          /\ RowError(IF shape = "noid" THEN ErrVideoIdMissing ELSE ErrException)
    /\ row' = row + 1
    /\ pc' = AfterRowError
    /\ UNCHANGED <<run, ret, configVars, agentVars, quotaVars>>
    /\ UNCHANGED <<issuedCost, addedIds, readded>>
    /\ UNCHANGED auxVars

\* lines 922-931
PlAddSucceeds ==
    /\ pc = "pl_add"
    /\ cur' = [cur EXCEPT !.adds = @ + 1]
    /\ df' = [df EXCEPT ![row + 1] = [status |-> "Success", error |-> ""]]
    /\ pl' = [pl EXCEPT !.matched_songs = @ + 1]
    /\ row' = row + 1
    /\ pc' = "pl_loop"
    /\ UNCHANGED <<run, ret, configVars, agentVars, quotaVars>>
    /\ UNCHANGED <<issuedCost, addedIds, readded, maxItemCalled, raisedItems,
                   searchCalls>>
    /\ UNCHANGED auxVars

\* lines 922, 943-954: add_to_playlist raises
PlAddRaises ==
    /\ pc = "pl_add"
    /\ cur' = [cur EXCEPT !.adds = @ + 1]
    /\ RowError(ErrException)
    /\ row' = row + 1
    /\ pc' = AfterRowError
    /\ UNCHANGED <<run, ret, configVars, agentVars, quotaVars>>
    /\ UNCHANGED <<issuedCost, addedIds, readded, maxItemCalled, searchCalls>>
    /\ UNCHANGED auxVars

\* lines 956-959
PlReturn ==
    /\ pc = "pl_loop"
    /\ row >= pl.total_songs
    /\ pc' = "done"
    /\ ret' = "returned"
    /\ UNCHANGED <<run, configVars, agentVars, quotaVars, playlistVars, histVars>>
    /\ UNCHANGED auxVars

Next ==
    \/ ProcessSongList
    \/ PslResolveTarget
    \/ PslCreateFails
    \/ PslNextBatch
    \/ PslReturn
    \/ PbNextItem
    \/ PbRecord
    \/ PbReturn
    \/ SearchNothing
    \/ SearchNoId
    \/ SearchMalformed
    \/ SearchFound
    \/ AddSucceeds
    \/ AddFails
    \/ RetryExhausted
    \/ ProcessWithQuota
    \/ PwqHalt
    \/ PwqNextBatch
    \/ QbNextItem
    \/ QbRecord
    \/ PwqAfterBatch
    \/ PwqReturn
    \/ ProcessPlaylist
    \/ PlSetup
    \/ PlSetupFails
    \/ PlCreate
    \/ PlCreateFails
    \/ PlSearchFound
    \/ PlSearchNothing
    \/ PlSearchRaises
    \/ PlSearchNoId
    \/ PlAddSucceeds
    \/ PlAddRaises
    \/ PlReturn

Spec == Init /\ [][Next]_vars

(***************************************************************************)
(* A run of process_song_list alone, for its termination.  main drives the *)
(* coroutine with loop.run_until_complete (lines 1295-1299): a step that   *)
(* can be taken is taken, every catalog call and every sleep ends.         *)
(***************************************************************************)
SongListSteps ==
    \/ PslResolveTarget
    \/ PslCreateFails
    \/ PslNextBatch
    \/ PslReturn
    \/ PbNextItem
    \/ PbRecord
    \/ PbReturn
    \/ SearchNothing
    \/ SearchNoId
    \/ SearchMalformed
    \/ SearchFound
    \/ AddSucceeds
    \/ AddFails
    \/ RetryExhausted

SongListNext == ProcessSongList \/ SongListSteps

SpecSongList == Init /\ [][SongListNext]_vars /\ WF_vars(SongListNext)

(***************************************************************************)
(* main: the agent is configured, then process_song_list runs.             *)
(***************************************************************************)
MainNext == Main \/ SongListSteps

SpecMain == Init /\ [][MainNext]_vars

(***************************************************************************)
(* RateLimiter.wait, on its own clock.                                     *)
(*                                                                         *)
(* The class exists twice, in src/youtube_playlist.py and in               *)
(* src/Untitled-2.py; limiter.file says which one is running.  One wait()  *)
(* is in progress at a time (the handlers await it before each call).      *)
(* asyncio.sleep(d) returns d ticks after it was called, or later.         *)
(***************************************************************************)
LimiterFiles == {"youtube_playlist.py", "Untitled-2.py"}

TicksPerSecond == calls_per_second * IntervalTicks

\* self.minimum_interval = 1.0 / calls_per_second, in ticks
minimum_interval == TicksPerSecond \div calls_per_second

\* the last line of wait(): youtube_playlist.py stores time.time() read after
\* the sleep, Untitled-2.py stores the current_time it read on entry
StoredCallTime(file, entered, returned) ==
    IF file = "Untitled-2.py" THEN entered ELSE returned

LimiterInit ==
    /\ RunInit
    /\ ClockInit
    /\ \E f \in LimiterFiles : limiter = [file |-> f, last_call_time |-> 0]
    /\ lpc = "idle"
    /\ current_time = 0
    /\ lastReturn = -1
    /\ prevReturn = -1
    /\ WindowIdle
    /\ TextIdle
    /\ TimeoutIdle

\* time passes between two calls of wait() and during its sleep
LimTick ==
    /\ lpc \in {"idle", "sleeping"}
    /\ now < MaxTime
    /\ now' = now + 1
    /\ UNCHANGED <<runVars, windowVars, wake, limiterVars>>
    /\ UNCHANGED <<textVars, timeoutVars>>

WaitReturns ==
    /\ limiter' = [limiter EXCEPT
                      !.last_call_time = StoredCallTime(limiter.file,
                                                        current_time', now)]
    /\ prevReturn' = lastReturn
    /\ lastReturn' = now
    /\ lpc' = "idle"

\* wait() is called long enough after last_call_time: no sleep
LimWaitNoSleep ==
    /\ lpc = "idle"
    /\ current_time' = now
    /\ ~(now - limiter.last_call_time < minimum_interval)
    /\ WaitReturns
    /\ UNCHANGED <<runVars, windowVars, clockVars>>
    /\ UNCHANGED <<textVars, timeoutVars>>

\* wait() is called too early and sleeps for the rest of the interval
LimWaitSleeps ==
    /\ lpc = "idle"
    /\ current_time' = now
    /\ now - limiter.last_call_time < minimum_interval
    /\ wake' = now + (minimum_interval - (now - limiter.last_call_time))
    /\ lpc' = "sleeping"
    /\ UNCHANGED <<runVars, windowVars, now, limiter, lastReturn, prevReturn>>
    /\ UNCHANGED <<textVars, timeoutVars>>

\* the sleep is over and wait() returns
LimWake ==
    /\ lpc = "sleeping"
    /\ now >= wake
    /\ UNCHANGED current_time
    /\ WaitReturns
    /\ UNCHANGED <<runVars, windowVars, clockVars>>
    /\ UNCHANGED <<textVars, timeoutVars>>

LimiterNext == LimTick \/ LimWaitNoSleep \/ LimWaitSleeps \/ LimWake

SpecLimiter == LimiterInit /\ [][LimiterNext]_vars

(***************************************************************************)
(* The sliding-window request limiter of the agent, on its own clock.      *)
(*                                                                         *)
(* Two callers go through _check_rate_limit: process_batch, once per song  *)
(* before _process_with_retry issues the song's searches and inserts, and  *)
(* _secure_api_call, once before the call it wraps.                        *)
(***************************************************************************)
\* lines 416-419: the requests younger than the window
CleanOld(requests, t, window_size) ==
    LET Young(req_time) == req_time > t - window_size
    IN  SelectSeq(requests, Young)

\* line 421
LimitReached(requests) == Len(requests) >= rate_limit.max_requests

\* _check_rate_limit: the requests it leaves behind
CheckedRequests ==
    LET cleaned == CleanOld(rate_limit.requests, now, rate_limit.window_size)
    IN  IF LimitReached(cleaned) THEN cleaned ELSE Append(cleaned, now)

\* _check_rate_limit: its return value
CheckPasses ==
    ~LimitReached(CleanOld(rate_limit.requests, now, rate_limit.window_size))

\* a catalog call goes out now; the history keeps a window's worth of them
IssueCall ==
    issued' = Append(CleanOld(issued, now, rate_limit.window_size), now)

WindowInit ==
    /\ RunInit
    /\ ClockInit
    /\ LimiterIdle
    /\ WindowIdle
    /\ TextIdle
    /\ TimeoutIdle

WinTick ==
    /\ now < MaxTime
    /\ now' = now + 1
    /\ UNCHANGED <<runVars, wake, limiterVars, windowVars>>
    /\ UNCHANGED <<textVars, timeoutVars>>

\* process_batch, lines 378-383: the check's result is dropped and the song
\* goes to _process_with_retry, which issues up to max_retries searches and
\* as many inserts
WbCheck ==
    /\ wpc = "idle"
    /\ rate_limit' = [rate_limit EXCEPT !.requests = CheckedRequests]
    /\ callsLeft' = 2 * max_retries
    /\ wpc' = "song"
    /\ UNCHANGED <<runVars, clockVars, limiterVars, issued>>
    /\ UNCHANGED <<textVars, timeoutVars>>

\* _process_with_retry, lines 550 and 569: a search or an insert
WbCall ==
    /\ wpc = "song"
    /\ callsLeft > 0
    /\ Len(issued) <= rate_limit.max_requests
    /\ IssueCall
    /\ callsLeft' = callsLeft - 1
    /\ UNCHANGED <<runVars, clockVars, limiterVars, rate_limit, wpc>>
    /\ UNCHANGED <<textVars, timeoutVars>>

\* _process_with_retry returns after at least one search
WbSongDone ==
    /\ wpc = "song"
    /\ callsLeft < 2 * max_retries
    /\ wpc' = "idle"
    /\ callsLeft' = 0
    /\ UNCHANGED <<runVars, clockVars, limiterVars, rate_limit, issued>>
    /\ UNCHANGED <<textVars, timeoutVars>>

\* _secure_api_call, line 435: the check passes
ScCheckPasses ==
    /\ wpc = "idle"
    /\ CheckPasses
    /\ rate_limit' = [rate_limit EXCEPT !.requests = CheckedRequests]
    /\ wpc' = "sc_call"
    /\ UNCHANGED <<runVars, clockVars, limiterVars, callsLeft, issued>>
    /\ UNCHANGED <<textVars, timeoutVars>>

\* _secure_api_call, lines 435-437: the limit is reached; sleep until the
\* oldest request leaves the window
ScCheckFails ==
    /\ wpc = "idle"
    /\ ~CheckPasses
    /\ rate_limit' = [rate_limit EXCEPT !.requests = CheckedRequests]
    /\ wake' = now + (rate_limit.window_size - (now - CheckedRequests[1]))
    /\ wpc' = "sc_sleep"
    /\ UNCHANGED <<runVars, now, limiterVars, callsLeft, issued>>
    /\ UNCHANGED <<textVars, timeoutVars>>

ScWake ==
    /\ wpc = "sc_sleep"
    /\ now >= wake
    /\ wpc' = "sc_call"
    /\ UNCHANGED <<runVars, clockVars, limiterVars, rate_limit, callsLeft, issued>>
    /\ UNCHANGED <<textVars, timeoutVars>>

\* _secure_api_call, line 440: the wrapped call
ScCall ==
    /\ wpc = "sc_call"
    /\ Len(issued) <= rate_limit.max_requests
    /\ IssueCall
    /\ wpc' = "idle"
    /\ UNCHANGED <<runVars, clockVars, limiterVars, rate_limit, callsLeft>>
    /\ UNCHANGED <<textVars, timeoutVars>>

WindowNext ==
    \/ WinTick
    \/ WbCheck
    \/ WbCall
    \/ WbSongDone
    \/ ScCheckPasses
    \/ ScCheckFails
    \/ ScWake
    \/ ScCall

SpecWindow == WindowInit /\ [][WindowNext]_vars

(***************************************************************************)
(* TextNormalizer.normalize                                                *)
(*                                                                         *)
(* The normalizer and the matcher are not among the files of src/; they    *)
(* are modelled from sections 4.1 and 4.2 of the design specification.  A  *)
(* title is a sequence of characters.  The alphabet has what the pipeline  *)
(* tells apart: lower-case letters, an upper-case letter, a letter with a  *)
(* diacritical mark, an emoji, the space, a punctuation mark (the hyphen)  *)
(* and a pair of brackets.                                                 *)
(***************************************************************************)
Chars == {"f", "o", "t", "F", "t^", ":)", " ", "-", "(", ")"}

Letters == {"f", "o", "t", "F"}
Punctuation == {"-", "(", ")"}

\* the words of the noise and stopword vocabularies this alphabet can spell
NoiseWords == {<<"f", "t">>}
StopWords == {<<"t", "o">>, <<"o", "f">>, <<"o", "f", "f">>, <<"t", "o", "o">>}

\* a value that is not a string
NotAString == <<None>>

IsString(x) == \A k \in DOMAIN x : x[k] # None

Lowercase(s) == [k \in DOMAIN s |-> IF s[k] = "F" THEN "f" ELSE s[k]]

\* steps 1 and 2: compose, then strip the combining marks
StripMarks(s) == [k \in DOMAIN s |-> IF s[k] = "t^" THEN "t" ELSE s[k]]

\* step 3
RemoveEmoji(s) == LET Keeps(c) == c # ":)" IN SelectSeq(s, Keeps)

\* where the span that opens at the head of s closes, 0 if it does not
ClosingAt(s) ==
    IF \E k \in 2..Len(s) : s[k] = ")"
    THEN CHOOSE k \in 2..Len(s) :
             s[k] = ")" /\ \A j \in 2..(k - 1) : s[j] # ")"
    ELSE 0

\* step 4: the bracketed spans are removed
RECURSIVE RemoveSpans(_)
RemoveSpans(s) ==
    IF s = <<>> THEN <<>>
    ELSE IF Head(s) = "(" /\ ClosingAt(s) > 0
         THEN RemoveSpans(SubSeq(s, ClosingAt(s) + 1, Len(s)))
         ELSE <<Head(s)>> \o RemoveSpans(Tail(s))

\* step 4: their contents, the alias candidates
RECURSIVE SpanContents(_)
SpanContents(s) ==
    IF s = <<>> THEN {}
    ELSE IF Head(s) = "(" /\ ClosingAt(s) > 0
         THEN {SubSeq(s, 2, ClosingAt(s) - 1)}
                  \cup SpanContents(SubSeq(s, ClosingAt(s) + 1, Len(s)))
         ELSE SpanContents(Tail(s))

\* step 5: a leading "<artist> - " is stripped
StripArtistPrefix(s) ==
    LET Ends == {k \in 2..(Len(s) - 2) :
                    s[k] = " " /\ s[k + 1] = "-" /\ s[k + 2] = " "}
    IN  IF Ends = {} THEN s
        ELSE LET k == CHOOSE e \in Ends : \A f \in Ends : e <= f
             IN  SubSeq(s, k + 3, Len(s))

\* the letters s starts with
RECURSIVE LetterPrefix(_)
LetterPrefix(s) ==
    IF s = <<>> \/ Head(s) \notin Letters THEN <<>>
    ELSE <<Head(s)>> \o LetterPrefix(Tail(s))

\* step 6: whole words of the noise vocabulary are removed, in any case
RECURSIVE RemoveNoiseWords(_)
RemoveNoiseWords(s) ==
    IF s = <<>> THEN <<>>
    ELSE IF Head(s) \in Letters
         THEN LET w == LetterPrefix(s)
                  rest == SubSeq(s, Len(w) + 1, Len(s))
              IN  (IF Lowercase(w) \in NoiseWords THEN <<>> ELSE w)
                      \o RemoveNoiseWords(rest)
         ELSE <<Head(s)>> \o RemoveNoiseWords(Tail(s))

\* step 7: the punctuation marks are stripped
StripPunctuation(s) ==
    LET Keeps(c) == c \notin Punctuation IN SelectSeq(s, Keeps)

RECURSIVE CollapseWhitespace(_)
CollapseWhitespace(s) ==
    IF Len(s) < 2 THEN s
    ELSE IF s[1] = " " /\ s[2] = " " THEN CollapseWhitespace(Tail(s))
         ELSE <<Head(s)>> \o CollapseWhitespace(Tail(s))

\* s is a sequence of single spaces and other characters
Trim(s) ==
    LET from == IF s # <<>> /\ s[1] = " " THEN 2 ELSE 1
        to == IF s # <<>> /\ s[Len(s)] = " " THEN Len(s) - 1 ELSE Len(s)
    IN  SubSeq(s, from, to)

\* steps 1 to 7
CanonicalForm(s) ==
    Trim(Lowercase(CollapseWhitespace(StripPunctuation(RemoveNoiseWords(
        StripArtistPrefix(RemoveSpans(RemoveEmoji(StripMarks(s)))))))))

\* the words of a canonical form
RECURSIVE Words(_)
Words(s) ==
    IF s = <<>> THEN {}
    ELSE IF Head(s) \in Letters
         THEN {LetterPrefix(s)}
                  \cup Words(SubSeq(s, Len(LetterPrefix(s)) + 1, Len(s)))
         ELSE Words(Tail(s))

\* core tokens: no stopwords, no token of length 2 or less
CoreTokens(s) == {w \in Words(Lowercase(s)) : w \notin StopWords /\ Len(w) > 2}

normalize(x) ==
    IF ~IsString(x) \/ x = <<>> THEN EmptyNormalized
    ELSE LET canonical == CanonicalForm(x)
         IN  [canonicalForm |-> canonical,
              coreTokens |-> CoreTokens(canonical),
              aliasForms |-> {CanonicalForm(c) :
                                 c \in SpanContents(RemoveEmoji(StripMarks(x)))}
                                \ {<<>>}]

NormalizerInputs == SeqsUpTo(Chars, MaxTitleLen) \cup {NotAString}

\* normalize is applied to the title, and again to its canonical form
NormalizeTitle ==
    /\ tpc = "normalize"
    /\ normalized' = normalize(title)
    /\ renormalized' = normalize(normalize(title).canonicalForm)
    /\ tpc' = "normalized"
    /\ UNCHANGED <<runVars, clockVars, limiterVars, windowVars, timeoutVars,
                   title, other,
                   verdicts>>

(***************************************************************************)
(* DuplicateMatcher.isDuplicate                                            *)
(***************************************************************************)
\* the two default thresholds, in hundredths
simThreshold == 85
overlapThreshold == 75

Min3(x, y, z) == Min(x, Min(y, z))

\* one more row of the edit-distance table: the distances from the prefixes
\* of a to the prefix of b that ends with ch; acc holds the row as far as it
\* is filled (position k + 1 for the prefix of length k)
RECURSIVE NextRow(_, _, _, _)
NextRow(prev, a, ch, acc) ==
    LET k == Len(acc)
    IN  IF k > Len(a) THEN acc
        ELSE NextRow(prev, a, ch,
                     Append(acc, Min3(prev[k + 1] + 1, acc[k] + 1,
                                      prev[k] + (IF a[k] = ch THEN 0 ELSE 1))))

RECURSIVE LastRow(_, _, _)
LastRow(first, a, b) ==
    IF b = <<>> THEN first
    ELSE LastRow(NextRow(first, a, Head(b), <<first[1] + 1>>), a, Tail(b))

\* the number of insertions, deletions and substitutions from a to b
EditDistance(a, b) == LastRow([k \in 1..(Len(a) + 1) |-> k - 1], a, b)[Len(a) + 1]

Longest(a, b) == IF Len(a) > Len(b) THEN Len(a) ELSE Len(b)

\* SimilarityRatio, with the distance set against the candidate's length only
SimilarityRatio_OfCandidate(a, b) ==
    IF Len(a) = 0 THEN 0
    ELSE IF EditDistance(a, b) >= Len(a) THEN 0
         ELSE (100 * (Len(a) - EditDistance(a, b))) \div Len(a)

\* check 2: the edit distance, normalized to 0..1 and given in hundredths
SimilarityRatio(a, b) ==
    IF Longest(a, b) = 0 THEN 100
    ELSE (100 * (Longest(a, b) - EditDistance(a, b))) \div Longest(a, b)

\* check 3: |A \cap B| / |A \cup B|, in hundredths
TokenOverlap(A, B) ==
    IF A \cup B = {} THEN 0
    ELSE (100 * Cardinality(A \cap B)) \div Cardinality(A \cup B)

Checks == {"exact", "similarity", "overlap"}

CheckOrders == {o \in [1..3 -> Checks] : Range(o) = Checks}

CheckFires(check, na, nb) ==
    CASE check = "exact" -> na.canonicalForm = nb.canonicalForm
      [] check = "similarity" ->
             SimilarityRatio(na.canonicalForm, nb.canonicalForm) >= simThreshold
      [] check = "overlap" ->
             TokenOverlap(na.coreTokens, nb.coreTokens) >= overlapThreshold

\* the first check of the order that fires for the pair, "none" if none does.
\* A title whose canonical form is empty matches nothing.
FirstMatch(order, na, nb) ==
    IF na.canonicalForm = <<>> \/ nb.canonicalForm = <<>> THEN "none"
    ELSE IF CheckFires(order[1], na, nb) THEN order[1]
    ELSE IF CheckFires(order[2], na, nb) THEN order[2]
    ELSE IF CheckFires(order[3], na, nb) THEN order[3]
    ELSE "none"

\* isDuplicate with the checks applied in the given order: whether the
\* candidate matches an existing title, and the titles it matches
isDuplicate(order, candidateTitle, existingTitles) ==
    LET candidate == normalize(candidateTitle)
        matches == {e \in existingTitles :
                       FirstMatch(order, candidate, normalize(e)) # "none"}
    IN  [duplicate |-> matches # {}, matched |-> matches]

DefaultOrder == <<"exact", "similarity", "overlap">>

\* the titles given to the matcher: up to MaxWords words with a space between
MatcherWords == {<<"F", "o", "t">>, <<"t", "o", "t">>, <<"t", "o">>}

RECURSIVE Join(_)
Join(ws) ==
    IF ws = <<>> THEN <<>>
    ELSE IF Len(ws) = 1 THEN ws[1]
    ELSE ws[1] \o <<" ">> \o Join(Tail(ws))

MatcherTitles == {Join(ws) : ws \in SeqsUpTo(MatcherWords, MaxWords)}
                     \cup {NotAString}

\* isDuplicate is applied to the pair both ways round, with the checks in
\* every order
CompareTitles ==
    /\ tpc = "compare"
    /\ verdicts' =
          {[candidate |-> c, order |-> o,
            duplicate |-> isDuplicate(o, c, {IF c = title THEN other ELSE title}).duplicate] :
               c \in {title, other}, o \in CheckOrders}
    /\ tpc' = "compared"
    /\ UNCHANGED <<runVars, clockVars, limiterVars, windowVars, timeoutVars,
                   title, other,
                   normalized, renormalized>>

TextInit ==
    /\ RunInit
    /\ ClockInit
    /\ LimiterIdle
    /\ WindowIdle
    /\ TimeoutIdle
    /\ normalized = EmptyNormalized
    /\ renormalized = EmptyNormalized
    /\ verdicts = {}
    /\ \/ /\ tpc = "normalize"
          /\ title \in NormalizerInputs
          /\ other = <<>>
       \/ /\ tpc = "compare"
          /\ title \in MatcherTitles
          /\ other \in MatcherTitles

TextNext == NormalizeTitle \/ CompareTitles

SpecText == TextInit /\ [][TextNext]_vars

(***************************************************************************)
(* src/timeout_manager.py                                                  *)
(*                                                                         *)
(* A coroutine handed to async_timeout is described by the seconds it      *)
(* takes and by how it ends: it returns a value, raises an Exception, or   *)
(* is cancelled from outside (CancelledError, which is not an Exception).  *)
(* A coroutine that is over the limit is cancelled by asyncio.wait_for and *)
(* lets the cancellation through.                                          *)
(***************************************************************************)
SEARCH_TIMEOUT_SEC == 20
GLOBAL_TIMEOUT_SEC == 60 * 75
MAX_SSL_RETRIES == 4
INITIAL_DELAY == 3          \* 1.5 s, in half-seconds

SearchResults == {"hits", "no hits"}
Exceptions == {"SSLError", "ValueError", "asyncio.TimeoutError"}
TimedOut == "TimeoutError: operation timed out"
CancelledError == "CancelledError"
SearchFailed == "Exception: search failed"

Coroutines(limit) ==
    {[takes |-> d, ends |-> "returns", value |-> v] :
         d \in {1, limit + 1}, v \in SearchResults}
      \cup {[takes |-> d, ends |-> "raises", value |-> e] :
                d \in {1, limit + 1}, e \in Exceptions}
      \cup {[takes |-> 1, ends |-> "cancelled", value |-> CancelledError]}

\* async_timeout, with no handler: what the coroutine raises reaches the caller
async_timeout_Reraise(c, seconds) ==
    IF c.takes > seconds
    THEN [success |-> FALSE, value |-> None, propagates |-> TimedOut]
    ELSE IF c.ends = "returns"
    THEN [success |-> TRUE, value |-> c.value, propagates |-> None]
    ELSE [success |-> FALSE, value |-> None, propagates |-> c.value]

\* TimeoutManager.async_timeout, lines 25-33.  `propagates` is the exception
\* that leaves the function, None if it returns its pair.  A TimeoutError
\* the coroutine raised itself is caught by the first handler, like the one
\* of wait_for.
async_timeout(c, seconds) ==
    IF c.takes > seconds \/ (c.ends = "raises" /\ c.value = "asyncio.TimeoutError")
    THEN [success |-> FALSE, value |-> TimedOut, propagates |-> None]
    ELSE IF c.ends = "returns"
    THEN [success |-> TRUE, value |-> c.value, propagates |-> None]
    ELSE IF c.ends = "raises"
    THEN [success |-> FALSE, value |-> c.value, propagates |-> None]
    ELSE [success |-> FALSE, value |-> None, propagates |-> c.value]

(***************************************************************************)
(* RobustSearchMixin.robust_search_with_recovery                           *)
(***************************************************************************)
\* NextDelay, keeping the delay as it is
NextDelay_Constant(d) == d

\* line 89: delay *= 2
NextDelay(d) == d * 2

\* RaisedAtEnd, always raising the generic exception
RaisedAtEnd_Generic(e) == SearchFailed

\* line 93: raise last_exception or Exception(...)
RaisedAtEnd(e) == IF e # None THEN e ELSE SearchFailed

RobustInit ==
    /\ RunInit
    /\ ClockInit
    /\ LimiterIdle
    /\ WindowIdle
    /\ TextIdle
    /\ TimeoutIdle

\* lines 58-61
RsCall ==
    /\ rpc = "idle"
    /\ delay' = INITIAL_DELAY
    /\ last_exception' = None
    /\ rattempt' = 1
    /\ rpc' = "try"
    /\ UNCHANGED <<coro, timed, rret, attemptLog, sleepLog>>
    /\ UNCHANGED <<runVars, clockVars, limiterVars, windowVars, textVars,
                   batchVars>>

\* lines 64-72: the search completes within the limit and its result is
\* returned
RsSucceeds ==
    /\ rpc = "try"
    /\ \E c \in Coroutines(SEARCH_TIMEOUT_SEC) :
          LET t == async_timeout(c, SEARCH_TIMEOUT_SEC) IN
          /\ t.propagates = None
          /\ t.success
          /\ coro' = c
          /\ timed' = t
          /\ rret' = [how |-> "returned", value |-> t.value]
          /\ attemptLog' = Append(attemptLog,
                                  [ended |-> "success", value |-> t.value])
    /\ rpc' = "returned"
    /\ UNCHANGED <<rattempt, delay, last_exception, sleepLog>>
    /\ UNCHANGED <<runVars, clockVars, limiterVars, windowVars, textVars,
                   batchVars>>

\* lines 64-79: the search timed out or raised; async_timeout hands the
\* exception over as a value (after an SSLError, _recreate_ssl_context is
\* awaited and returns)
RsFails ==
    /\ rpc = "try"
    /\ \E c \in Coroutines(SEARCH_TIMEOUT_SEC) :
          LET t == async_timeout(c, SEARCH_TIMEOUT_SEC) IN
          /\ t.propagates = None
          /\ ~t.success
          /\ coro' = c
          /\ timed' = t
          /\ last_exception' = t.value
          /\ attemptLog' = Append(attemptLog,
                                  [ended |-> "failed", value |-> t.value])
    /\ rpc' = "after"
    /\ UNCHANGED <<rattempt, delay, rret, sleepLog>>
    /\ UNCHANGED <<runVars, clockVars, limiterVars, windowVars, textVars,
                   batchVars>>

\* lines 77-83: the search failed with an SSLError and the override of
\* _recreate_ssl_context raises; the handler keeps that exception
RsRecreateRaises ==
    /\ rpc = "try"
    /\ \E c \in Coroutines(SEARCH_TIMEOUT_SEC) :
          LET t == async_timeout(c, SEARCH_TIMEOUT_SEC) IN
          /\ t.propagates = None
          /\ ~t.success
          /\ t.value = "SSLError"
          /\ coro' = c
          /\ timed' = t
    /\ last_exception' = "RuntimeError"
    /\ attemptLog' = Append(attemptLog,
                            [ended |-> "exception", value |-> "RuntimeError"])
    /\ rpc' = "after"
    /\ UNCHANGED <<rattempt, delay, rret, sleepLog>>
    /\ UNCHANGED <<runVars, clockVars, limiterVars, windowVars, textVars,
                   batchVars>>

\* lines 65, 81-83: the override of _perform_search raises when it is called,
\* before there is a coroutine to await
RsCallRaises ==
    /\ rpc = "try"
    /\ last_exception' = "TypeError"
    /\ attemptLog' = Append(attemptLog,
                            [ended |-> "exception", value |-> "TypeError"])
    /\ rpc' = "after"
    /\ UNCHANGED <<rattempt, delay, coro, timed, rret, sleepLog>>
    /\ UNCHANGED <<runVars, clockVars, limiterVars, windowVars, textVars,
                   batchVars>>

\* the caller's task is cancelled during the search: CancelledError is not
\* an Exception and leaves async_timeout and the retry loop
RsCancelled ==
    /\ rpc = "try"
    /\ \E c \in Coroutines(SEARCH_TIMEOUT_SEC) :
          LET t == async_timeout(c, SEARCH_TIMEOUT_SEC) IN
          /\ t.propagates # None
          /\ coro' = c
          /\ timed' = t
          /\ rret' = [how |-> "raised", value |-> t.propagates]
          /\ attemptLog' = Append(attemptLog,
                                  [ended |-> "cancelled", value |-> t.propagates])
    /\ rpc' = "cancelled"
    /\ UNCHANGED <<rattempt, delay, last_exception, sleepLog>>
    /\ UNCHANGED <<runVars, clockVars, limiterVars, windowVars, textVars,
                   batchVars>>

\* lines 86-89, 61: not the last attempt; sleep, double the delay, try again
RsSleep ==
    /\ rpc = "after"
    /\ rattempt < MAX_SSL_RETRIES
    /\ sleepLog' = Append(sleepLog, [after |-> rattempt, secs |-> delay])
    /\ delay' = NextDelay(delay)
    /\ rattempt' = rattempt + 1
    /\ rpc' = "try"
    /\ UNCHANGED <<last_exception, coro, timed, rret, attemptLog>>
    /\ UNCHANGED <<runVars, clockVars, limiterVars, windowVars, textVars,
                   batchVars>>

\* lines 86, 91-93: the last attempt failed; no sleep, the loop ends
RsGiveUp ==
    /\ rpc = "after"
    /\ rattempt >= MAX_SSL_RETRIES
    /\ rret' = [how |-> "raised", value |-> RaisedAtEnd(last_exception)]
    /\ rpc' = "raised"
    /\ UNCHANGED <<rattempt, delay, last_exception, coro, timed, attemptLog,
                   sleepLog>>
    /\ UNCHANGED <<runVars, clockVars, limiterVars, windowVars, textVars,
                   batchVars>>

RobustNext ==
    \/ RsCall
    \/ RsSucceeds
    \/ RsFails
    \/ RsRecreateRaises
    \/ RsCallRaises
    \/ RsCancelled
    \/ RsSleep
    \/ RsGiveUp

SpecRobust == RobustInit /\ [][RobustNext]_vars

(***************************************************************************)
(* SafeBatchProcessor.safe_batch_process                                   *)
(*                                                                         *)
(* The event loop runs the caller's task and up to MaxTasks others.  A     *)
(* task other than the caller's is running, or it is over: it ended by     *)
(* itself, or it was cancelled here and ended as cancelled, with an        *)
(* exception, or with a result.  The other tasks do not await the caller's *)
(* task and create no task while they are being cancelled.                 *)
(***************************************************************************)
TaskIds == 1..MaxTasks

Over == {"ended", "cancelled", "failed", "finished"}

\* how a task that was told to cancel can be found when `await task` is over
CancelOutcomes == {"cancelled", "failed", "finished"}

\* Awaited, with the await left out: cancel() only asks for the cancellation
Awaited_NotAwaited(outcome) == "cancelling"

\* lines 128-134: task.cancel(), then `await task` inside a try that catches
\* CancelledError and Exception
Awaited(outcome) == outcome

BatchInit ==
    /\ RunInit
    /\ ClockInit
    /\ LimiterIdle
    /\ WindowIdle
    /\ TextIdle
    /\ RobustIdle
    /\ bpc = "operation"
    /\ tasks \in [TaskIds -> {"running", "ended"}]
    /\ pending = {}
    /\ cancelled = {}
    /\ bret = None

\* a running task ends by itself while the operation or an await is going on
SbTaskEnds ==
    /\ bpc \in {"operation", "cancelling"}
    /\ \E t \in TaskIds :
          /\ tasks[t] = "running"
          /\ tasks' = [tasks EXCEPT ![t] = "ended"]
    /\ UNCHANGED <<bpc, pending, cancelled, bret>>
    /\ UNCHANGED <<runVars, clockVars, limiterVars, windowVars, textVars>>
    /\ UNCHANGED <<rpc, rattempt, delay, last_exception, coro, timed, rret,
                   attemptLog, sleepLog>>

\* lines 114-121: the operation is over within the limit; its result is
\* returned
SbReturn ==
    /\ bpc = "operation"
    /\ \E c \in Coroutines(GLOBAL_TIMEOUT_SEC) :
          LET t == async_timeout(c, GLOBAL_TIMEOUT_SEC) IN
          /\ t.propagates = None
          /\ t.success
          /\ coro' = c
          /\ timed' = t
          /\ bret' = [how |-> "returned", value |-> t.value]
    /\ bpc' = "returned"
    /\ UNCHANGED <<tasks, pending, cancelled>>
    /\ UNCHANGED <<runVars, clockVars, limiterVars, windowVars, textVars>>
    /\ UNCHANGED <<rpc, rattempt, delay, last_exception, rret, attemptLog,
                   sleepLog>>

\* lines 114-125: the operation timed out or raised; all_tasks() gives the
\* tasks that are not over
SbOperationFails ==
    /\ bpc = "operation"
    /\ \E c \in Coroutines(GLOBAL_TIMEOUT_SEC) :
          LET t == async_timeout(c, GLOBAL_TIMEOUT_SEC) IN
          /\ t.propagates = None
          /\ ~t.success
          /\ coro' = c
          /\ timed' = t
    /\ pending' = {t \in TaskIds : tasks[t] \notin Over}
    /\ bpc' = "cancelling"
    /\ UNCHANGED <<tasks, cancelled, bret>>
    /\ UNCHANGED <<runVars, clockVars, limiterVars, windowVars, textVars>>
    /\ UNCHANGED <<rpc, rattempt, delay, last_exception, rret, attemptLog,
                   sleepLog>>

\* the caller's task is cancelled during the operation: the CancelledError
\* leaves async_timeout and safe_batch_process
SbCancelled ==
    /\ bpc = "operation"
    /\ \E c \in Coroutines(GLOBAL_TIMEOUT_SEC) :
          LET t == async_timeout(c, GLOBAL_TIMEOUT_SEC) IN
          /\ t.propagates # None
          /\ coro' = c
          /\ timed' = t
          /\ bret' = [how |-> "raised", value |-> t.propagates]
    /\ bpc' = "cancelled"
    /\ UNCHANGED <<tasks, pending, cancelled>>
    /\ UNCHANGED <<runVars, clockVars, limiterVars, windowVars, textVars>>
    /\ UNCHANGED <<rpc, rattempt, delay, last_exception, rret, attemptLog,
                   sleepLog>>

\* line 126: the task ended since all_tasks() was called; it is passed over
SbSkipDone ==
    /\ bpc = "cancelling"
    /\ \E t \in pending :
          /\ tasks[t] \in Over
          /\ pending' = pending \ {t}
    /\ UNCHANGED <<bpc, tasks, cancelled, bret>>
    /\ UNCHANGED <<runVars, clockVars, limiterVars, windowVars, textVars>>
    /\ UNCHANGED <<rpc, rattempt, delay, last_exception, coro, timed, rret,
                   attemptLog, sleepLog>>

\* lines 126-134: the task is cancelled and awaited
SbCancelTask ==
    /\ bpc = "cancelling"
    /\ \E t \in pending, outcome \in CancelOutcomes :
          /\ tasks[t] \notin Over
          /\ cancelled' = cancelled \cup {t}
          /\ tasks' = [tasks EXCEPT ![t] = Awaited(outcome)]
          /\ pending' = pending \ {t}
    /\ UNCHANGED <<bpc, bret>>
    /\ UNCHANGED <<runVars, clockVars, limiterVars, windowVars, textVars>>
    /\ UNCHANGED <<rpc, rattempt, delay, last_exception, coro, timed, rret,
                   attemptLog, sleepLog>>

\* line 137: the loop is over; the timeout or error is raised
SbRaise ==
    /\ bpc = "cancelling"
    /\ pending = {}
    /\ bret' = [how |-> "raised", value |-> timed.value]
    /\ bpc' = "raised"
    /\ UNCHANGED <<tasks, pending, cancelled>>
    /\ UNCHANGED <<runVars, clockVars, limiterVars, windowVars, textVars>>
    /\ UNCHANGED <<rpc, rattempt, delay, last_exception, coro, timed, rret,
                   attemptLog, sleepLog>>

BatchNext ==
    \/ SbTaskEnds
    \/ SbReturn
    \/ SbOperationFails
    \/ SbCancelled
    \/ SbSkipDone
    \/ SbCancelTask
    \/ SbRaise

SpecBatch == BatchInit /\ [][BatchNext]_vars

(***************************************************************************)
(* Properties.                                                             *)
(***************************************************************************)
ItemCost == quota_settings.search_cost + quota_settings.playlist_insert_cost

AgentRun == run \in {"song_list", "quota"}

\* C1: no double-add.  The add-to-playlist call is never issued for a
\* track id that the run has already added, nor for a track id that was
\* present in the target playlist when the run started: every id is checked
\* against both sets before its add call.
C1_NoDoubleAdd == AgentRun => readded = {}

\* C2: when process_song_list returns, results['details'] holds exactly one
\* entry per song of the deduplicated input: as many entries as songs, and
\* each song in exactly one of them.
C2_OneOutcomePerSong ==
    (run = "song_list" /\ ret = "returned") =>
        /\ Len(results.details) = Len(songs)
        /\ \A t \in Range(songs) :
              Cardinality({k \in DOMAIN results.details :
                              results.details[k].song = t}) = 1

C2_Witness ==
    /\ run = "song_list"
    /\ ret = "returned"
    /\ Len(songs) = 2
    /\ results.details[1].status = "Failed"
    /\ results.details[1].error = ErrException
    /\ results.details[2].status = "Added"

\* C3: when a run finishes, the outcome counters sum to the number of
\* requested songs: successful + len(failed) = total_songs in
\* process_song_list, and matched_songs + len(unmatched_songs) + len(errors)
\* = total_songs in process_playlist.
C3_CountersSum ==
    /\ (run = "song_list" /\ ret = "returned") =>
          /\ results.total_songs = Len(songs)
          /\ results.successful + Len(results.failed) = results.total_songs
    /\ (run = "playlist" /\ ret = "returned") =>
          pl.matched_songs + Len(pl.unmatched_songs) + Len(pl.errors)
              = pl.total_songs

C3_Witness ==
    /\ run = "song_list"
    /\ ret = "returned"
    /\ batch_size = 1
    /\ results.successful = 1
    /\ Len(results.failed) = 1

\* C4: the quota budget is never exceeded mid-run.  At every point of a run
\* the cost of the billable calls issued so far (every search and every
\* insert, retries included) is at most the daily budget, and when the run
\* ends the consumed counter has been charged with every one of them.
C4_QuotaNeverExceeded ==
    AgentRun =>
        /\ issuedCost <= quota_settings.daily_quota
        /\ ret # "none" =>
              Min(quota_settings.current_quota, CostCap) = issuedCost

\* the batches up to and including the one that holds position k
SongsThroughBatchOf(k) ==
    Min(Len(songs), (((k - 1) \div batch_size) + 1) * batch_size)

C8_InputDeduplicated ==
    /\ (run = "song_list" /\ ret = "returned") =>
          /\ Len(results.details) = Cardinality(Range(input))
          /\ \A k \in DOMAIN songs :
                /\ songs[k] \in Range(input)
                /\ \A j \in 1..(k - 1) : songs[j] # songs[k]
    /\ (run = "playlist" /\ ret = "returned" /\ pl.total_songs > 0) =>
          Len(df) = Cardinality(Range(input))

\* C9: the ledger keeps the order of the deduplicated input.  The outcome at
\* position k of results['details'] is that of the k-th song, at every
\* batch boundary and when the run returns.
C9_LedgerInInputOrder ==
    run = "song_list" =>
        /\ Len(results.details) <= Len(songs)
        /\ \A k \in DOMAIN results.details :
              results.details[k].song = songs[k]

C9_Witness ==
    /\ run = "song_list"
    /\ ret = "returned"
    /\ batch_size = 1
    /\ Len(results.details) = 2
    /\ results.details[1].song = "b"
    /\ results.details[2].song = "a"

\* C10: if every search attempt for an item returns zero results, the
\* item's outcome is NotFound (not Failed), its error field is a non-empty
\* message, and no add call was made for the item.
C10_EmptySearchIsNotFound ==
    (AgentRun /\ pc = "item_done" /\ cur.kinds = {"empty"}) =>
        /\ result.details.status = "NotFound"
        /\ result.details.error # None
        /\ cur.adds = 0

\* C11: if the add call for an item fails k times (k < max_retries) and
\* then succeeds, the item's outcome is Added and exactly k + 1 add calls were
\* made for it: a failed add is followed by another attempt as long as
\* attempts are left, and no add call follows the one that succeeded.
C11_AddRetriedUntilSuccess ==
    (AgentRun /\ pc = "item_done") =>
        /\ cur.addFails < cur.adds =>
              /\ result.success
              /\ result.details.status = "Added"
              /\ cur.adds = cur.addFails + 1
              /\ cur.addFails < max_retries
        /\ cur.addFails = cur.adds =>
              /\ ~result.success
              /\ attempt = max_retries

C11_Witness ==
    /\ run = "song_list"
    /\ pc = "item_done"
    /\ cur.addFails = 2
    /\ cur.adds = 3
    /\ result.details.status = "Added"

\* C12: when all attempts for an item are used up without success, its
\* outcome is Failed and its error field holds the message of the last failed
\* attempt: it is not empty and it is not a message left by an earlier
\* attempt, also when the last failure was an add call that reported failure
\* without raising.
C12_LastErrorKept ==
    (AgentRun /\ pc = "item_done" /\ ~result.success) =>
        /\ result.details.status = "Failed"
        /\ result.details.error # None
        /\ result.details.error = cur.lastMsg

\* C13: when the target playlist cannot be created, the run ends by
\* returning its (empty) ledger, never by raising to the caller, and no
\* search or add call has been issued in it.
C13_SetupErrorReturns ==
    /\ ret # "raised"
    /\ (run = "song_list" /\ pc = "done" /\ results.playlist_id = None) =>
          /\ ret = "returned"
          /\ results.details = <<>>
          /\ maxItemCalled = 0
          /\ issuedCost = 0
    /\ (run = "playlist" /\ pc = "done" /\ pl.total_songs = 0) =>
          /\ ret = "returned"
          /\ maxItemCalled = 0

\* C14: a quota halt is a run-level signal.  The value a halted run
\* returns holds the outcomes of the processed songs together with an
\* indication that the run halted early; no song that was left unprocessed
\* has an outcome in it, Failed or other.
C14_HaltIsRunLevelSignal ==
    (run = "quota" /\ ret = "returned" /\ warning >= 0) =>
        /\ Len(ReturnValue.ledger) = warning
        /\ \A k \in DOMAIN ReturnValue.ledger :
              ReturnValue.ledger[k].song = songs[k]
        /\ ReturnValue.halt # None

\* C15: within a run of process_with_quota the consumed-quota counter never
\* decreases: every step of the run leaves total_quota (and
\* quota_settings['current_quota']) unchanged or increases it, and it is not
\* reset before the run returns.
C15_ConsumedMonotone ==
    [][run = "quota" =>
          /\ total_quota' >= total_quota
          /\ quota_settings'.current_quota >= quota_settings.current_quota]_vars

C15_Witness ==
    /\ run = "quota"
    /\ ret = "returned"
    /\ batch_size = 1
    /\ total_quota = 2 * ItemCost

\* C16: RateLimiter minimum spacing.  Two consecutive returns of wait() on
\* one limiter are at least minimum_interval (1 / calls_per_second seconds)
\* apart, last_call_time being the time of the latest return.
C16_MinimumSpacing ==
    /\ prevReturn >= 0 => lastReturn - prevReturn >= minimum_interval
    /\ (lpc = "idle" /\ lastReturn >= 0) => limiter.last_call_time = lastReturn

\* the same for the class of src/youtube_playlist.py alone
LimiterSpacingInPlaylistApp ==
    limiter.file = "youtube_playlist.py" => C16_MinimumSpacing

\* the catalog calls issued in the window that ends now
CallsInWindow == CleanOld(issued, now, rate_limit.window_size)

\* C17: sliding-window request cap.  In any window of window_size at most
\* max_requests catalog calls are issued through process_batch and
\* _secure_api_call: every call counts in the window, also the one that was
\* delayed because the cap had been reached.
C17_WindowCap == Len(CallsInWindow) <= rate_limit.max_requests

\* the songs whose outcome is in the ledger or in the batch under way
Recorded ==
    IF pc \in {"pb_loop", "retry_loop", "retry_add", "item_done"}
    THEN Len(results.details) + Len(batch_results.details)
    ELSE Len(results.details)

\* C18: songs are processed strictly one after the other.  No catalog call
\* for song k + 1 is issued before the outcome of song k has been appended,
\* so while a call is awaited exactly one song is in flight: the one after
\* the last recorded outcome.
C18_OneSongInFlight ==
    run = "song_list" =>
        /\ maxItemCalled <= Recorded + 1
        /\ pc \in {"retry_loop", "retry_add"} =>
              /\ ItemPos = Recorded + 1
              /\ result.details.song = songs[ItemPos]
        /\ pc = "item_done" => maxItemCalled = Recorded + 1

C18_Witness ==
    /\ run = "song_list"
    /\ pc = "retry_add"
    /\ batch_size = 2
    /\ ItemPos = 2
    /\ Len(batch_results.details) = 1
    /\ maxItemCalled = 2

\* C19: dedup symmetry.  For all titles a and b, isDuplicate(a, {b}) and
\* isDuplicate(b, {a}) give the same boolean under the exact-canonical,
\* similarity-ratio and core-token-overlap checks, and the boolean is the
\* same for every order in which the three checks are applied.
C19_DedupSymmetry ==
    tpc = "compared" => Cardinality({v.duplicate : v \in verdicts}) = 1

C19_Witness ==
    /\ tpc = "compared"
    /\ title # other
    /\ normalize(title).canonicalForm # normalize(other).canonicalForm
    /\ Len(title) < Len(other)
    /\ FirstMatch(DefaultOrder, normalize(title), normalize(other)) = "similarity"
    /\ \A v \in verdicts : v.duplicate

\* C20: idempotent normalization.  The canonical form of a title is a fixed
\* point of normalize: normalizing it again gives the same canonical form and
\* the same core tokens.  A non-string or empty title normalizes to the empty
\* canonical form and is never reported as a duplicate of another title.
C20_IdempotentNormalization ==
    /\ tpc = "normalized" =>
          /\ renormalized.canonicalForm = normalized.canonicalForm
          /\ renormalized.coreTokens = normalized.coreTokens
          /\ (~IsString(title) \/ title = <<>>) => normalized = EmptyNormalized
    /\ tpc = "compared" =>
          \A v \in verdicts :
              (~IsString(v.candidate) \/ v.candidate = <<>>) => ~v.duplicate

\* C21: bounded retries.  For each item the pipeline makes at most maxRetries
\* attempts, maxRetries being the value configured for the run (default 3):
\* at most that many search calls and that many add calls are issued for the
\* item, and no call is issued for it once an attempt has succeeded.
C21_RetriesBoundedByConfigured ==
    AgentRun =>
        /\ cur.searches <= agent_max_retries
        /\ cur.adds <= agent_max_retries
        /\ result.success => pc \notin {"retry_loop", "retry_add"}

\* the bound the loop of line 547 does keep: security['max_retries']
RetriesBoundedBySecuritySetting ==
    AgentRun =>
        /\ cur.searches <= max_retries
        /\ cur.adds <= max_retries
        /\ result.success => pc \notin {"retry_loop", "retry_add"}

\* C22: a structural failure is terminal.  Once the selected search result
\* of an item carried no track id, no further search or add call is made for
\* that item, and its outcome is Failed with a descriptive message.
C22_MissingIdIsTerminal ==
    /\ [][(AgentRun /\ "noid" \in cur.kinds) =>
              /\ cur'.searches <= cur.searches
              /\ cur'.adds <= cur.adds]_vars
    /\ []((AgentRun /\ pc = "item_done" /\ "noid" \in cur.kinds) =>
              /\ result.details.status = "Failed"
              /\ result.details.error = ErrInvalidId)

\* process_playlist, lines 916-919 and 943-954: the row whose first match
\* has no video id gets status Error and its message, and the loop is at the
\* next row
MissingIdEndsRowInPlaylistApp ==
    (run = "playlist" /\ "noid" \in cur.kinds) =>
        /\ pc \in {"pl_loop", "done"}
        /\ cur.searches = 1
        /\ cur.adds = 0
        /\ df[row] = [status |-> "Error", error |-> ErrVideoIdMissing]

\* C23: a search that fails with a transport or API error is a failure, not
\* a content miss.  An item whose every search attempt raised ends with
\* status Failed once the attempts are used up, and it does not carry the
\* status or the message of a search that returned zero results.
C23_SearchErrorIsNotAMiss ==
    /\ (AgentRun /\ pc = "item_done" /\ cur.kinds = {"raise"}) =>
          /\ result.details.status = "Failed"
          /\ cur.searches = max_retries
          /\ result.details.error # ErrNoResults
    /\ (run = "playlist" /\ cur.kinds = {"raise"}) =>
          /\ df[row].status = "Error"
          /\ df[row].error # ErrNoMatches

\* the first part of C23 without the message: Failed, after all the attempts
SearchErrorEndsFailed ==
    (AgentRun /\ pc = "item_done" /\ cur.kinds = {"raise"}) =>
        /\ result.details.status = "Failed"
        /\ cur.searches = max_retries
        /\ cur.adds = 0

Pow2(n) == 2 ^ n

\* C24: exponential backoff on add failure.  After the add call of attempt a
\* of an item failed, the pipeline sleeps 2^a seconds before the next
\* attempt, so the delays between successive attempts of the item strictly
\* increase.  (Attempts may be numbered from 0 or from 1.)
C24_BackoffAfterFailedAdd ==
    /\ []((/\ AgentRun
           /\ cur.slept.after = "add"
           /\ cur.slept.attempt + 1 < max_retries) =>
              cur.slept.secs \in {Pow2(cur.slept.attempt),
                                  Pow2(cur.slept.attempt + 1)})
    /\ [][(/\ AgentRun
           /\ cur.slept.after = "add"
           /\ cur'.slept.after = "add"
           /\ cur'.slept.attempt = cur.slept.attempt + 1
           /\ cur'.slept.attempt + 1 < max_retries) =>
              cur'.slept.secs > cur.slept.secs]_vars

\* what the retry loop does sleep: one second after an attempt that raised
\* inside _process_with_retry, nothing after any other
RetrySleepIsConstant ==
    AgentRun =>
        /\ cur.slept.after = "add" => cur.slept.secs = 0
        /\ cur.slept.secs \in {0, 1}

\* C25: every run terminates.  For any song list, any batch size and any
\* behaviour of the catalog calls, process_song_list eventually returns or
\* raises, and it has issued at most len(songs) * max_retries search calls
\* (songs being the deduplicated list).
C25_RunTerminates ==
    /\ [](run = "song_list" => searchCalls <= Len(songs) * max_retries)
    /\ <>(run = "song_list" /\ pc = "done" /\ ret \in {"returned", "raised"})

C25_Witness ==
    /\ run = "song_list"
    /\ ret = "returned"
    /\ batch_size = 1
    /\ Len(songs) = 2
    /\ searchCalls = 2 * max_retries
    /\ results.successful = 0

\* C26: in process_with_quota the accumulated estimate total_quota is at
\* most daily_quota after every loop iteration, for every list length and
\* batch size; a first batch whose estimate alone exceeds daily_quota halts
\* the run with zero songs processed.
C26_EstimateWithinBudget ==
    run = "quota" =>
        /\ total_quota <= quota_settings.daily_quota
        /\ (/\ pc = "done"
            /\ songs # <<>>
            /\ EstimatedQuota(Min(batch_size, Len(songs)))
                  > quota_settings.daily_quota) =>
               /\ warning = 0
               /\ qresults = <<>>
               /\ total_quota = 0
               /\ searchCalls = 0
               /\ maxItemCalled = 0

C26_Witness ==
    /\ run = "quota"
    /\ ret = "returned"
    /\ Len(songs) = 2
    /\ batch_size = 2
    /\ quota_settings.daily_quota = QuotaLow
    /\ warning = 0

AttemptFailed(a) == a.ended \in {"failed", "exception"}

\* C27: robust_search_with_recovery makes at most MAX_SSL_RETRIES (4) search
\* attempts.  It returns the result of the first successful attempt and
\* makes no attempt after it; if all 4 attempts fail, by timeout or by
\* exception, it raises the exception of the last attempt instead of
\* returning a value.
C27_AtMostFourAttempts ==
    /\ Len(attemptLog) <= MAX_SSL_RETRIES
    /\ \A k \in 1..(Len(attemptLog) - 1) : AttemptFailed(attemptLog[k])
    /\ rpc = "returned" =>
          /\ attemptLog # <<>>
          /\ attemptLog[Len(attemptLog)].ended = "success"
          /\ coro.ends = "returns"
          /\ rret = [how |-> "returned", value |-> coro.value]
    /\ (Len(attemptLog) = MAX_SSL_RETRIES
          /\ AttemptFailed(attemptLog[MAX_SSL_RETRIES])) =>
          /\ rpc \in {"after", "raised"}
          /\ rpc = "raised" =>
                rret = [how |-> "raised",
                        value |-> attemptLog[MAX_SSL_RETRIES].value]
    /\ rpc = "raised" =>
          /\ Len(attemptLog) = MAX_SSL_RETRIES
          /\ \A k \in 1..MAX_SSL_RETRIES : AttemptFailed(attemptLog[k])

C27_Witness ==
    /\ rpc = "raised"
    /\ attemptLog[1].value = "SSLError"
    /\ attemptLog[3].ended = "exception"
    /\ attemptLog[4].value = TimedOut
    /\ rret.value = TimedOut

\* C28: robust_search_with_recovery backs off exponentially.  It sleeps only
\* between attempts, never after the last one; the first sleep is
\* INITIAL_DELAY (1.5 s) and each following sleep is twice the previous one,
\* also when an attempt ended by an exception rather than a failed result.
C28_ExponentialBackoff ==
    /\ \A k \in 1..Len(sleepLog) :
          /\ sleepLog[k].after = k
          /\ k < MAX_SSL_RETRIES
          /\ sleepLog[k].secs = IF k = 1 THEN INITIAL_DELAY
                                ELSE 2 * sleepLog[k - 1].secs
    /\ rpc = "try" => Len(sleepLog) = Len(attemptLog)
    /\ rpc = "after" => Len(sleepLog) = Len(attemptLog) - 1
    /\ rpc \in {"returned", "cancelled"} => Len(sleepLog) = Len(attemptLog) - 1
    /\ rpc = "raised" => Len(sleepLog) = MAX_SSL_RETRIES - 1

C28_Witness ==
    /\ rpc = "raised"
    /\ attemptLog[2].ended = "exception"
    /\ attemptLog[4].ended = "exception"
    /\ Len(sleepLog) = 3
    /\ sleepLog[3].secs = 4 * INITIAL_DELAY

\* C29: TimeoutManager.async_timeout converts failure into a value.  It
\* returns (True, result) when the coroutine completes within the limit and
\* (False, exception) when it times out or raises an Exception; neither a
\* timeout nor an Exception of the coroutine propagates to the caller.
C29_FailureBecomesValue ==
    coro # NoCoro =>
        /\ (coro.takes <= SEARCH_TIMEOUT_SEC /\ coro.ends = "returns") =>
              timed = [success |-> TRUE, value |-> coro.value,
                       propagates |-> None]
        /\ (coro.takes > SEARCH_TIMEOUT_SEC \/ coro.ends = "raises") =>
              /\ ~timed.success
              /\ timed.propagates = None
              /\ timed.value \in Exceptions \cup {TimedOut}
        /\ coro.takes > SEARCH_TIMEOUT_SEC => timed.value = TimedOut
        /\ (/\ coro.takes <= SEARCH_TIMEOUT_SEC
            /\ coro.ends = "raises"
            /\ coro.value # "asyncio.TimeoutError") => timed.value = coro.value

C29_Witness ==
    /\ rpc = "after"
    /\ coro.takes > SEARCH_TIMEOUT_SEC
    /\ coro.ends = "raises"
    /\ timed = [success |-> FALSE, value |-> TimedOut, propagates |-> None]

\* C30: safe_batch_process returns the operation's result without
\* cancelling anything when the operation succeeds.  When the operation
\* exceeds the global timeout or fails, every other task that is not done is
\* cancelled and awaited before the failure is re-raised to the caller, so
\* that no task keeps running after the call ends.
C30_NoTaskLeftRunning ==
    /\ bpc = "returned" =>
          /\ cancelled = {}
          /\ timed.success
          /\ bret = [how |-> "returned", value |-> coro.value]
    /\ bpc = "cancelling" =>
          \A t \in TaskIds \ pending : tasks[t] \in Over
    /\ bpc = "raised" =>
          /\ ~timed.success
          /\ bret = [how |-> "raised", value |-> timed.value]
          /\ \A t \in TaskIds :
                \/ tasks[t] = "ended" /\ t \notin cancelled
                \/ tasks[t] \in CancelOutcomes /\ t \in cancelled

C30_Witness ==
    /\ bpc = "raised"
    /\ coro.takes > GLOBAL_TIMEOUT_SEC
    /\ bret.value = TimedOut
    /\ Cardinality(cancelled) = 2
    /\ \E t \in TaskIds : tasks[t] = "ended"
    /\ \E t \in TaskIds : tasks[t] = "failed"

=============================================================================
